---------------------------- MODULE Spec2Model ----------------------------
(***************************************************************************)
(* State-machine model of drivers/misc/inv_mpu/accel/lsm303dlx_a.c, the    *)
(* InvenSense MPL slave driver for the ST LSM303DLH/DLM accelerometer.     *)
(*                                                                         *)
(* Data model.  The driver takes its requests as C `long` and keeps them   *)
(* in `unsigned int` and `unsigned char` fields.  The model keeps those    *)
(* widths: a `long` is 8 bytes (the 64-bit request value of the driver's   *)
(* interface), an `unsigned int` 4 bytes, an `unsigned char` one byte.     *)
(* Values that the code only ever assigns from literals (odr, fsr) are     *)
(* plain naturals; values that come from a request (ths, dur, the request  *)
(* itself) are little-endian two's-complement byte sequences, because the  *)
(* model checker's own integers are narrower than a C long.  Arithmetic on *)
(* long wraps modulo 2^64, which is what the kernel's build                *)
(* (-fno-strict-overflow) produces for signed overflow.                    *)
(*                                                                         *)
(* Every driver entry point is one atomic action (the driver is called     *)
(* synchronously, one operation at a time).  The serial transport is the   *)
(* environment: the status of every bus operation, and the byte a read     *)
(* leaves in the caller's buffer, are chosen nondeterministically.         *)
(***************************************************************************)
EXTENDS Integers, Sequences, FiniteSets, TLC

VARIABLES
    private_data,   \* [suspend, resume]: struct lsm303dlx_a_private_data
    call,           \* the entry point that ran last and its arguments
    bus,            \* the bus operations that call issued, in order
    result,         \* the status that call returned
    out,            \* what get_config stored through data->data
    ncalls          \* how many set_config calls have reached a setter

vars == <<private_data, call, bus, result, out, ncalls>>

---------------------------------------------------------------------------
(* C integers as byte sequences *)

\* two's-complement encoding of the integer n in w bytes, least significant first
RECURSIVE Enc(_, _)
Enc(n, w) == IF w = 0 THEN <<>> ELSE <<n % 256>> \o Enc(n \div 256, w - 1)

\* a long constant, as in 128L or (long)x for a small x
Long(n) == Enc(n, 8)

\* an unsigned int constant
U32(n) == Enc(n, 4)

\* the natural number a byte sequence holds, read as unsigned
RECURSIVE ValU(_)
ValU(x) == IF x = <<>> THEN 0 ELSE Head(x) + 256 * ValU(Tail(x))

\* the sign bit of a signed value
IsNeg(x) == x[Len(x)] >= 128

RECURSIVE AddCarry(_, _, _)
AddCarry(x, y, c) ==
    IF x = <<>> THEN <<>>
    ELSE LET s == Head(x) + Head(y) + c
         IN  <<s % 256>> \o AddCarry(Tail(x), Tail(y), s \div 256)

Not(x) == [i \in 1..Len(x) |-> 255 - x[i]]

\* x - y, wrapping at the width of x
Sub(x, y) == AddCarry(x, Not(y), 1)

\* -x, wrapping at the width of x
Neg(x) == Sub([i \in 1..Len(x) |-> 0], x)

RECURSIVE MulCarry(_, _, _)
MulCarry(x, c, k) ==
    IF x = <<>> THEN <<>>
    ELSE LET p == Head(x) * c + k
         IN  <<p % 256>> \o MulCarry(Tail(x), c, p \div 256)

\* x * c for a natural c, wrapping at the width of x (signed and unsigned
\* multiplication agree on the low bytes)
Mul(x, c) == MulCarry(x, c, 0)

RECURSIVE DivStep(_, _, _, _)
DivStep(x, d, i, r) ==
    IF i = 0 THEN <<>>
    ELSE LET cur == r * 256 + x[i]
         IN  DivStep(x, d, i - 1, cur % d) \o <<cur \div d>>

\* unsigned x / d for a natural d > 0
UDiv(x, d) == DivStep(x, d, Len(x), 0)

\* signed x / d for a natural d > 0: C division truncates toward zero
SDiv(x, d) == IF IsNeg(x) THEN Neg(UDiv(Neg(x), d)) ELSE UDiv(x, d)

\* x < y, both read as unsigned
RECURSIVE ULt(_, _)
ULt(x, y) ==
    IF x = <<>> THEN FALSE
    ELSE LET n == Len(x)
         IN  IF x[n] # y[n] THEN x[n] < y[n]
             ELSE ULt(SubSeq(x, 1, n - 1), SubSeq(y, 1, n - 1))

\* x < y, both read as signed
SLt(x, y) == IF IsNeg(x) # IsNeg(y) THEN IsNeg(x) ELSE ULt(x, y)

\* (unsigned int) of a long: the low four bytes
Trunc32(x) == SubSeq(x, 1, 4)

\* (long) of an unsigned int: zero extension
ZExt(x) == x \o <<0, 0, 0, 0>>

\* (unsigned char) of a long: the low byte
LowByte(x) == x[1]

\* bitwise and / or of two bytes
RECURSIVE BitAnd(_, _)
BitAnd(a, b) ==
    IF a = 0 \/ b = 0 THEN 0
    ELSE (a % 2) * (b % 2) + 2 * BitAnd(a \div 2, b \div 2)

RECURSIVE BitOr(_, _)
BitOr(a, b) ==
    IF a = 0 THEN b
    ELSE IF b = 0 THEN a
    ELSE (IF a % 2 = 1 \/ b % 2 = 1 THEN 1 ELSE 0) + 2 * BitOr(a \div 2, b \div 2)

---------------------------------------------------------------------------
(* Register map and constants of the driver *)

LSM303DLx_CTRL_REG1 == 32
LSM303DLx_CTRL_REG2 == 33
LSM303DLx_CTRL_REG3 == 34
LSM303DLx_CTRL_REG4 == 35
LSM303DLx_HP_FILTER_RESET == 37
LSM303DLx_STATUS_REG == 39
LSM303DLx_OUT_X_L == 40
LSM303DLx_INT1_CFG == 48
LSM303DLx_INT1_THS == 50
LSM303DLx_INT1_DURATION == 51
LSM303DLx_PWR_MODE_NORMAL == 32
LSM303DLx_MAX_DUR == 127

\* .read_reg and .read_len of the slave descriptor
read_reg == BitOr(LSM303DLx_OUT_X_L, 128)
read_len == 6

\* status codes (mltypes.h); the code only tests a status against zero
INV_SUCCESS == "INV_SUCCESS"
INV_ERROR_INVALID_PARAMETER == "INV_ERROR_INVALID_PARAMETER"
INV_ERROR_FEATURE_NOT_IMPLEMENTED == "INV_ERROR_FEATURE_NOT_IMPLEMENTED"
INV_ERROR_ACCEL_DATA_NOT_READY == "INV_ERROR_ACCEL_DATA_NOT_READY"

\* what the serial transport can return besides success
TransportError == {"INV_ERROR_SERIAL_WRITE", "INV_ERROR_SERIAL_READ"}
Status == {INV_SUCCESS} \cup TransportError

\* interrupt types (linux/mpu.h)
MPU_SLAVE_IRQ_TYPE_NONE == 0
MPU_SLAVE_IRQ_TYPE_MOTION == 1
MPU_SLAVE_IRQ_TYPE_DATA_READY == 2

\* configuration keys (linux/mpu.h), by the configuration and setter they select
SuspendKeys == {"MPU_SLAVE_CONFIG_ODR_SUSPEND", "MPU_SLAVE_CONFIG_FSR_SUSPEND",
                "MPU_SLAVE_CONFIG_MOT_THS", "MPU_SLAVE_CONFIG_MOT_DUR",
                "MPU_SLAVE_CONFIG_IRQ_SUSPEND"}
ResumeKeys == {"MPU_SLAVE_CONFIG_ODR_RESUME", "MPU_SLAVE_CONFIG_FSR_RESUME",
               "MPU_SLAVE_CONFIG_NMOT_THS", "MPU_SLAVE_CONFIG_NMOT_DUR",
               "MPU_SLAVE_CONFIG_IRQ_RESUME"}
OdrKeys == {"MPU_SLAVE_CONFIG_ODR_SUSPEND", "MPU_SLAVE_CONFIG_ODR_RESUME"}
FsrKeys == {"MPU_SLAVE_CONFIG_FSR_SUSPEND", "MPU_SLAVE_CONFIG_FSR_RESUME"}
ThsKeys == {"MPU_SLAVE_CONFIG_MOT_THS", "MPU_SLAVE_CONFIG_NMOT_THS"}
DurKeys == {"MPU_SLAVE_CONFIG_MOT_DUR", "MPU_SLAVE_CONFIG_NMOT_DUR"}
IrqKeys == {"MPU_SLAVE_CONFIG_IRQ_SUSPEND", "MPU_SLAVE_CONFIG_IRQ_RESUME"}
Keys == SuspendKeys \cup ResumeKeys

---------------------------------------------------------------------------
(* The serial transport (mlsl.h): every operation is appended to the log  *)
(* of the running call; st[k] is the status the transport returns for the *)
(* k-th operation of the call.                                            *)

inv_serial_single_write(b, st, reg, val) ==
    Append(b, [kind |-> "write", reg |-> reg, val |-> val, len |-> 1,
               status |-> st[Len(b) + 1]])

\* val is the byte the read leaves in the first byte of the caller's buffer
inv_serial_read(b, st, reg, len, val) ==
    Append(b, [kind |-> "read", reg |-> reg, val |-> val, len |-> len,
               status |-> st[Len(b) + 1]])

\* the status of the operation issued last
LastStatus(b) == b[Len(b)].status

---------------------------------------------------------------------------
(* The setters.  Each takes the configuration, the log so far, the        *)
(* transport's statuses, the apply flag and the request, and yields the   *)
(* new configuration, the new log and the status it returns.              *)

\* struct lsm303dlx_a_config as kzalloc leaves it
ZeroConfig ==
    [odr |-> 0, fsr |-> 0, ths |-> U32(0), dur |-> U32(0),
     reg_ths |-> 0, reg_dur |-> 0, ctrl_reg1 |-> 0, irq_type |-> 0,
     mot_int1_cfg |-> 0]

lsm303dlx_a_set_ths(config, b, st, apply, ths) ==
    LET ths1 == IF ~ULt(Trunc32(ths), U32(config.fsr))
                THEN Sub(Long(config.fsr), Long(1))
                ELSE ths
        ths2 == IF SLt(ths1, Long(0)) THEN Long(0) ELSE ths1
        cfg  == [config EXCEPT
                   !.ths = Trunc32(ths2),
                   !.reg_ths = LowByte(SDiv(Mul(ths2, 128), config.fsr))]
        b1   == IF apply
                THEN inv_serial_single_write(b, st, LSM303DLx_INT1_THS, cfg.reg_ths)
                ELSE b
    IN  [config |-> cfg, bus |-> b1,
         result |-> IF apply THEN LastStatus(b1) ELSE INV_SUCCESS]

lsm303dlx_a_set_dur(config, b, st, apply, dur) ==
    LET reg_dur0 == SDiv(Mul(dur, config.odr), 1000000)
        reg_dur  == IF SLt(Long(LSM303DLx_MAX_DUR), reg_dur0)
                    THEN Long(LSM303DLx_MAX_DUR)
                    ELSE reg_dur0
        cfg  == [config EXCEPT !.dur = Trunc32(dur), !.reg_dur = LowByte(reg_dur)]
        b1   == IF apply
                THEN inv_serial_single_write(b, st, LSM303DLx_INT1_DURATION,
                                             LowByte(reg_dur))
                ELSE b
    IN  [config |-> cfg, bus |-> b1,
         result |-> IF apply THEN LastStatus(b1) ELSE INV_SUCCESS]

\* mutant: an interrupt pair that uses the suspend configuration's byte for
\* every motion interrupt
IrqRegs_one_motion_byte(irq_is_data_ready, irq_is_motion, mot_int1_cfg) ==
    IF irq_is_data_ready THEN [reg1 |-> 2, reg2 |-> 0]
    ELSE IF irq_is_motion THEN [reg1 |-> 0, reg2 |-> 42]
    ELSE [reg1 |-> 0, reg2 |-> 0]

\* the CTRL_REG3 / INT1_CFG pair for an interrupt type
IrqRegs(irq_is_data_ready, irq_is_motion, mot_int1_cfg) ==
    IF irq_is_data_ready THEN [reg1 |-> 2, reg2 |-> 0]
    ELSE IF irq_is_motion THEN [reg1 |-> 0, reg2 |-> mot_int1_cfg]
    ELSE [reg1 |-> 0, reg2 |-> 0]

lsm303dlx_a_set_irq(config, b, st, apply, irq_type) ==
    LET cfg == [config EXCEPT !.irq_type = LowByte(irq_type)]
        r   == IrqRegs(irq_type = Long(MPU_SLAVE_IRQ_TYPE_DATA_READY),
                       irq_type = Long(MPU_SLAVE_IRQ_TYPE_MOTION),
                       config.mot_int1_cfg)
        b1  == IF apply
               THEN inv_serial_single_write(b, st, LSM303DLx_CTRL_REG3, r.reg1)
               ELSE b
        b2  == IF apply
               THEN inv_serial_single_write(b1, st, LSM303DLx_INT1_CFG, r.reg2)
               ELSE b1
    IN  [config |-> cfg, bus |-> b2,
         result |-> IF apply THEN LastStatus(b2) ELSE INV_SUCCESS]

\* mutant: a rate table that rounds the request down to a supported rate
OdrTier_round_down(odr) ==
    IF ~SLt(odr, Long(1000000)) THEN
        [odr |-> 1000000, bits |-> BitOr(LSM303DLx_PWR_MODE_NORMAL, 24)]
    ELSE IF ~SLt(odr, Long(400000)) THEN
        [odr |-> 400000, bits |-> BitOr(LSM303DLx_PWR_MODE_NORMAL, 16)]
    ELSE IF ~SLt(odr, Long(100000)) THEN
        [odr |-> 100000, bits |-> BitOr(LSM303DLx_PWR_MODE_NORMAL, 8)]
    ELSE IF ~SLt(odr, Long(50000)) THEN
        [odr |-> 50000, bits |-> BitOr(LSM303DLx_PWR_MODE_NORMAL, 0)]
    ELSE IF ~SLt(odr, Long(10000)) THEN [odr |-> 10000, bits |-> 192]
    ELSE IF ~SLt(odr, Long(5000)) THEN [odr |-> 5000, bits |-> 160]
    ELSE IF ~SLt(odr, Long(2000)) THEN [odr |-> 2000, bits |-> 128]
    ELSE IF ~SLt(odr, Long(1000)) THEN [odr |-> 1000, bits |-> 96]
    ELSE IF ~SLt(odr, Long(500)) THEN [odr |-> 500, bits |-> 64]
    ELSE [odr |-> 0, bits |-> 0]

\* mutant: a rate table without the final else, so that no request disables
\* the device
OdrTier_never_off(odr) ==
    IF SLt(Long(400000), odr) THEN
        [odr |-> 1000000, bits |-> BitOr(LSM303DLx_PWR_MODE_NORMAL, 24)]
    ELSE IF SLt(Long(100000), odr) THEN
        [odr |-> 400000, bits |-> BitOr(LSM303DLx_PWR_MODE_NORMAL, 16)]
    ELSE IF SLt(Long(50000), odr) THEN
        [odr |-> 100000, bits |-> BitOr(LSM303DLx_PWR_MODE_NORMAL, 8)]
    ELSE IF SLt(Long(10000), odr) THEN
        [odr |-> 50000, bits |-> BitOr(LSM303DLx_PWR_MODE_NORMAL, 0)]
    ELSE IF SLt(Long(5000), odr) THEN [odr |-> 10000, bits |-> 192]
    ELSE IF SLt(Long(2000), odr) THEN [odr |-> 5000, bits |-> 160]
    ELSE IF SLt(Long(1000), odr) THEN [odr |-> 2000, bits |-> 128]
    ELSE IF SLt(Long(500), odr) THEN [odr |-> 1000, bits |-> 96]
    ELSE [odr |-> 500, bits |-> 64]

\* the rate table: the first tier the request exceeds
OdrTier(odr) ==
    IF SLt(Long(400000), odr) THEN
        [odr |-> 1000000, bits |-> BitOr(LSM303DLx_PWR_MODE_NORMAL, 24)]
    ELSE IF SLt(Long(100000), odr) THEN
        [odr |-> 400000, bits |-> BitOr(LSM303DLx_PWR_MODE_NORMAL, 16)]
    ELSE IF SLt(Long(50000), odr) THEN
        [odr |-> 100000, bits |-> BitOr(LSM303DLx_PWR_MODE_NORMAL, 8)]
    ELSE IF SLt(Long(10000), odr) THEN
        [odr |-> 50000, bits |-> BitOr(LSM303DLx_PWR_MODE_NORMAL, 0)]
    ELSE IF SLt(Long(5000), odr) THEN [odr |-> 10000, bits |-> 192]
    ELSE IF SLt(Long(2000), odr) THEN [odr |-> 5000, bits |-> 160]
    ELSE IF SLt(Long(1000), odr) THEN [odr |-> 2000, bits |-> 128]
    ELSE IF SLt(Long(500), odr) THEN [odr |-> 1000, bits |-> 96]
    ELSE IF SLt(Long(0), odr) THEN [odr |-> 500, bits |-> 64]
    ELSE [odr |-> 0, bits |-> 0]

\* mutant: set_odr that overwrites ctrl_reg1 with the rate bits
lsm303dlx_a_set_odr_overwrite(config, b, st, apply, odr) ==
    LET t    == OdrTier(odr)
        cfg  == [config EXCEPT !.odr = t.odr, !.ctrl_reg1 = t.bits]
        d    == lsm303dlx_a_set_dur(cfg, b, st, apply, ZExt(cfg.dur))
        b1   == IF apply
                THEN inv_serial_single_write(d.bus, st, LSM303DLx_CTRL_REG1,
                                             d.config.ctrl_reg1)
                ELSE d.bus
    IN  [config |-> d.config, bus |-> b1,
         result |-> IF apply THEN LastStatus(b1) ELSE INV_SUCCESS]

lsm303dlx_a_set_odr(config, b, st, apply, odr) ==
    LET t    == OdrTier(odr)
        cfg  == [config EXCEPT
                   !.odr = t.odr,
                   !.ctrl_reg1 = BitOr(t.bits, BitAnd(config.ctrl_reg1, 7))]
        d    == lsm303dlx_a_set_dur(cfg, b, st, apply, ZExt(cfg.dur))
        b1   == IF apply
                THEN inv_serial_single_write(d.bus, st, LSM303DLx_CTRL_REG1,
                                             d.config.ctrl_reg1)
                ELSE d.bus
    IN  [config |-> d.config, bus |-> b1,
         result |-> IF apply THEN LastStatus(b1) ELSE INV_SUCCESS]

\* mutant: a range table whose tiers exclude their upper limit
FsrTier_exclusive(fsr) ==
    IF SLt(fsr, Long(2048)) THEN [fsr |-> 2048, reg1 |-> 64]
    ELSE IF SLt(fsr, Long(4096)) THEN [fsr |-> 4096, reg1 |-> BitOr(64, 48)]
    ELSE [fsr |-> 8192, reg1 |-> BitOr(64, 16)]

\* the range table of set_fsr and the CTRL_REG4 byte it writes
FsrTier(fsr) ==
    IF ~SLt(Long(2048), fsr) THEN [fsr |-> 2048, reg1 |-> 64]
    ELSE IF ~SLt(Long(4096), fsr) THEN [fsr |-> 4096, reg1 |-> BitOr(64, 48)]
    ELSE [fsr |-> 8192, reg1 |-> BitOr(64, 16)]

\* mutant: set_fsr that writes CTRL_REG4 whether or not it is asked to apply
lsm303dlx_a_set_fsr_always_writes(config, b, st, apply, fsr) ==
    LET t    == FsrTier(fsr)
        cfg  == [config EXCEPT !.fsr = t.fsr]
        h    == lsm303dlx_a_set_ths(cfg, b, st, apply, ZExt(cfg.ths))
        b1   == inv_serial_single_write(h.bus, st, LSM303DLx_CTRL_REG4, t.reg1)
    IN  [config |-> h.config, bus |-> b1, result |-> LastStatus(b1)]

lsm303dlx_a_set_fsr(config, b, st, apply, fsr) ==
    LET t    == FsrTier(fsr)
        cfg  == [config EXCEPT !.fsr = t.fsr]
        h    == lsm303dlx_a_set_ths(cfg, b, st, apply, ZExt(cfg.ths))
        b1   == IF apply
                THEN inv_serial_single_write(h.bus, st, LSM303DLx_CTRL_REG4, t.reg1)
                ELSE h.bus
    IN  [config |-> h.config, bus |-> b1,
         result |-> IF apply THEN LastStatus(b1) ELSE INV_SUCCESS]

---------------------------------------------------------------------------
(* Power transitions and the sample read *)

WriteOp(reg, val) == [kind |-> "write", reg |-> reg, val |-> val, len |-> 1]
ReadOp(reg, len, val) == [kind |-> "read", reg |-> reg, val |-> val, len |-> len]

Issue(b, st, op) ==
    IF op.kind = "write"
    THEN inv_serial_single_write(b, st, op.reg, op.val)
    ELSE inv_serial_read(b, st, op.reg, op.len, op.val)

\* result = op(...); with nothing looking at result before the next operation
RECURSIVE BestEffort(_, _, _)
BestEffort(ops, b, st) ==
    IF ops = <<>> THEN b
    ELSE BestEffort(Tail(ops), Issue(b, st, Head(ops)), st)

\* result = op(...); if (result) return result;
RECURSIVE FailFast(_, _, _)
FailFast(ops, b, st) ==
    IF ops = <<>> THEN b
    ELSE LET b1 == Issue(b, st, Head(ops))
         IN  IF LastStatus(b1) # INV_SUCCESS THEN b1
             ELSE FailFast(Tail(ops), b1, st)

\* the CTRL_REG4 byte suspend and resume compute from the stored range
PowerFsrReg(fsr) ==
    IF fsr = 8192 THEN BitOr(64, 48)
    ELSE IF fsr = 4096 THEN BitOr(64, 16)
    ELSE 64

\* the byte the diagnostic read stores in reg1 is never looked at
SuspendOps(c) ==
    LET r == IrqRegs(c.irq_type = MPU_SLAVE_IRQ_TYPE_DATA_READY,
                     c.irq_type = MPU_SLAVE_IRQ_TYPE_MOTION, c.mot_int1_cfg)
    IN  << WriteOp(LSM303DLx_CTRL_REG1, c.ctrl_reg1),
           WriteOp(LSM303DLx_CTRL_REG2, 15),
           WriteOp(LSM303DLx_CTRL_REG4, PowerFsrReg(c.fsr)),
           WriteOp(LSM303DLx_INT1_THS, c.reg_ths),
           WriteOp(LSM303DLx_INT1_DURATION, c.reg_dur),
           WriteOp(LSM303DLx_CTRL_REG3, r.reg1),
           WriteOp(LSM303DLx_INT1_CFG, r.reg2),
           ReadOp(LSM303DLx_HP_FILTER_RESET, 1, 0) >>

\* mutant: suspend that gives up at the first failed operation
lsm303dlx_a_suspend_failfast(pd, st) ==
    LET b == FailFast(SuspendOps(pd.suspend), <<>>, st)
    IN  [bus |-> b, result |-> LastStatus(b)]

lsm303dlx_a_suspend(pd, st) ==
    LET b == BestEffort(SuspendOps(pd.suspend), <<>>, st)
    IN  [bus |-> b, result |-> LastStatus(b)]

\* msleep(6) after the first write changes no state
ResumeOps(c) ==
    LET r == IrqRegs(c.irq_type = MPU_SLAVE_IRQ_TYPE_DATA_READY,
                     c.irq_type = MPU_SLAVE_IRQ_TYPE_MOTION, c.mot_int1_cfg)
    IN  << WriteOp(LSM303DLx_CTRL_REG1, c.ctrl_reg1),
           WriteOp(LSM303DLx_CTRL_REG4, PowerFsrReg(c.fsr)),
           WriteOp(LSM303DLx_CTRL_REG2, 15),
           WriteOp(LSM303DLx_CTRL_REG3, r.reg1),
           WriteOp(LSM303DLx_INT1_THS, c.reg_ths),
           WriteOp(LSM303DLx_INT1_DURATION, c.reg_dur),
           WriteOp(LSM303DLx_INT1_CFG, r.reg2),
           ReadOp(LSM303DLx_HP_FILTER_RESET, 1, 0) >>

\* mutant: resume that never looks at a status before the last one
lsm303dlx_a_resume_unchecked(pd, st) ==
    LET b == BestEffort(ResumeOps(pd.resume), <<>>, st)
    IN  [bus |-> b, result |-> LastStatus(b)]

\* mutant: resume that programs the registers in the order suspend does
lsm303dlx_a_resume_suspend_order(pd, st) ==
    LET b == FailFast(SuspendOps(pd.resume), <<>>, st)
    IN  [bus |-> b, result |-> LastStatus(b)]

lsm303dlx_a_resume(pd, st) ==
    LET b == FailFast(ResumeOps(pd.resume), <<>>, st)
    IN  [bus |-> b, result |-> LastStatus(b)]

\* data0 is what data[0] holds after the status read (the register when the
\* read succeeds, whatever the caller's buffer held when it fails); the six
\* sample bytes of the burst are relayed, not interpreted
\* mutant: read that takes any set bit of the status byte for data ready
lsm303dlx_a_read_anybit(st, data0) ==
    LET b1 == inv_serial_read(<<>>, st, LSM303DLx_STATUS_REG, 1, data0)
    IN  IF BitAnd(data0, 255) # 0
        THEN LET b2 == inv_serial_read(b1, st, read_reg, read_len, 0)
             IN  [bus |-> b2, result |-> LastStatus(b2)]
        ELSE [bus |-> b1, result |-> INV_ERROR_ACCEL_DATA_NOT_READY]

lsm303dlx_a_read(st, data0) ==
    LET b1 == inv_serial_read(<<>>, st, LSM303DLx_STATUS_REG, 1, data0)
    IN  IF BitAnd(data0, 15) # 0
        THEN LET b2 == inv_serial_read(b1, st, read_reg, read_len, 0)
             IN  [bus |-> b2, result |-> LastStatus(b2)]
        ELSE [bus |-> b1, result |-> INV_ERROR_ACCEL_DATA_NOT_READY]

---------------------------------------------------------------------------
(* Attach, and the configuration entry points *)

\* the setter a key selects
Setter(key, config, b, st, apply, value) ==
    IF key \in OdrKeys THEN lsm303dlx_a_set_odr(config, b, st, apply, value)
    ELSE IF key \in FsrKeys THEN lsm303dlx_a_set_fsr(config, b, st, apply, value)
    ELSE IF key \in ThsKeys THEN lsm303dlx_a_set_ths(config, b, st, apply, value)
    ELSE IF key \in DurKeys THEN lsm303dlx_a_set_dur(config, b, st, apply, value)
    ELSE lsm303dlx_a_set_irq(config, b, st, apply, value)

\* no setter of init applies, so init asks the transport for nothing
InitStatus == [k \in 1..16 |-> INV_SUCCESS]

\* the configuration a key belongs to
ConfigOf(pd, key) == IF key \in SuspendKeys THEN pd.suspend ELSE pd.resume

\* private_data with the configuration a key belongs to replaced
StoreConfig(pd, key, config) ==
    IF key \in SuspendKeys THEN [pd EXCEPT !.suspend = config]
    ELSE [pd EXCEPT !.resume = config]

\* one setter call of init: it never applies, and its status is dropped
InitPut(m, key, r) ==
    [private_data |-> StoreConfig(m.private_data, key, r.config),
     bus |-> r.bus, result |-> INV_SUCCESS]

InitSet(m, c) ==
    InitPut(m, c.key, Setter(c.key, ConfigOf(m.private_data, c.key), m.bus,
                             InitStatus, FALSE, c.value))

\* mutant: init that seeds the resume rate with 100000 mHz
InitCalls_resume_100hz(range) ==
    << [key |-> "MPU_SLAVE_CONFIG_ODR_SUSPEND", value |-> Long(0)],
       [key |-> "MPU_SLAVE_CONFIG_ODR_RESUME", value |-> Long(100000)],
       [key |-> "MPU_SLAVE_CONFIG_FSR_SUSPEND", value |-> range],
       [key |-> "MPU_SLAVE_CONFIG_FSR_RESUME", value |-> range],
       [key |-> "MPU_SLAVE_CONFIG_MOT_THS", value |-> Long(80)],
       [key |-> "MPU_SLAVE_CONFIG_NMOT_THS", value |-> Long(40)],
       [key |-> "MPU_SLAVE_CONFIG_MOT_DUR", value |-> Long(1000)],
       [key |-> "MPU_SLAVE_CONFIG_NMOT_DUR", value |-> Long(2540)],
       [key |-> "MPU_SLAVE_CONFIG_IRQ_SUSPEND",
        value |-> Long(MPU_SLAVE_IRQ_TYPE_NONE)],
       [key |-> "MPU_SLAVE_CONFIG_IRQ_RESUME",
        value |-> Long(MPU_SLAVE_IRQ_TYPE_NONE)] >>

\* the setter calls of init, in order; range is
\* range_fixedpoint_to_long_mg(slave->range)
InitCalls(range) ==
    << [key |-> "MPU_SLAVE_CONFIG_ODR_SUSPEND", value |-> Long(0)],
       [key |-> "MPU_SLAVE_CONFIG_ODR_RESUME", value |-> Long(200000)],
       [key |-> "MPU_SLAVE_CONFIG_FSR_SUSPEND", value |-> range],
       [key |-> "MPU_SLAVE_CONFIG_FSR_RESUME", value |-> range],
       [key |-> "MPU_SLAVE_CONFIG_MOT_THS", value |-> Long(80)],
       [key |-> "MPU_SLAVE_CONFIG_NMOT_THS", value |-> Long(40)],
       [key |-> "MPU_SLAVE_CONFIG_MOT_DUR", value |-> Long(1000)],
       [key |-> "MPU_SLAVE_CONFIG_NMOT_DUR", value |-> Long(2540)],
       [key |-> "MPU_SLAVE_CONFIG_IRQ_SUSPEND",
        value |-> Long(MPU_SLAVE_IRQ_TYPE_NONE)],
       [key |-> "MPU_SLAVE_CONFIG_IRQ_RESUME",
        value |-> Long(MPU_SLAVE_IRQ_TYPE_NONE)] >>

RECURSIVE InitRun(_, _)
InitRun(m, calls) ==
    IF calls = <<>> THEN m ELSE InitRun(InitSet(m, Head(calls)), Tail(calls))

lsm303dlx_a_init(range) ==
    InitRun([private_data |->
               [suspend |-> [ZeroConfig EXCEPT !.ctrl_reg1 = 71,
                                               !.mot_int1_cfg = 42],
                resume  |-> [ZeroConfig EXCEPT !.ctrl_reg1 = 55,
                                               !.mot_int1_cfg = 149]],
             bus |-> <<>>, result |-> INV_SUCCESS],
            InitCalls(range))

\* mutant: set_config that stores the setter's result in both configurations
ConfigPut_both(pd, key, r) ==
    [private_data |-> [suspend |-> r.config, resume |-> r.config],
     bus |-> r.bus, result |-> r.result]

\* mutant: set_config that keeps the prior configuration when the setter
\* reports a failed write
ConfigPut_rollback(pd, key, r) ==
    [private_data |-> IF r.result = INV_SUCCESS
                      THEN StoreConfig(pd, key, r.config) ELSE pd,
     bus |-> r.bus, result |-> r.result]

ConfigPut(pd, key, r) ==
    [private_data |-> StoreConfig(pd, key, r.config),
     bus |-> r.bus, result |-> r.result]

\* mutant: set_config that looks at the key before the value pointer
lsm303dlx_a_config_key_first(pd, key, apply, null, value, st) ==
    IF key \notin Keys THEN
        [private_data |-> pd, bus |-> <<>>,
         result |-> INV_ERROR_FEATURE_NOT_IMPLEMENTED]
    ELSE IF null THEN
        [private_data |-> pd, bus |-> <<>>, result |-> INV_ERROR_INVALID_PARAMETER]
    ELSE
        ConfigPut(pd, key, Setter(key, ConfigOf(pd, key), <<>>, st, apply, value))

\* null: data->data is a null pointer; value: *((long *)data->data) otherwise
lsm303dlx_a_config(pd, key, apply, null, value, st) ==
    IF null THEN
        [private_data |-> pd, bus |-> <<>>, result |-> INV_ERROR_INVALID_PARAMETER]
    ELSE IF key \in Keys THEN
        ConfigPut(pd, key, Setter(key, ConfigOf(pd, key), <<>>, st, apply, value))
    ELSE
        [private_data |-> pd, bus |-> <<>>,
         result |-> INV_ERROR_FEATURE_NOT_IMPLEMENTED]

\* the field a key reads, as the unsigned long get_config stores
Getter(key, config) ==
    IF key \in OdrKeys THEN Long(config.odr)
    ELSE IF key \in FsrKeys THEN Long(config.fsr)
    ELSE IF key \in ThsKeys THEN ZExt(config.ths)
    ELSE IF key \in DurKeys THEN ZExt(config.dur)
    ELSE Long(config.irq_type)

\* out is <<>> when nothing is stored through data->data
lsm303dlx_a_get_config(pd, key, null) ==
    IF null THEN [out |-> <<>>, result |-> INV_ERROR_INVALID_PARAMETER]
    ELSE IF key \in Keys THEN
        [out |-> Getter(key, ConfigOf(pd, key)), result |-> INV_SUCCESS]
    ELSE [out |-> <<>>, result |-> INV_ERROR_FEATURE_NOT_IMPLEMENTED]

---------------------------------------------------------------------------
(* Inputs and bounds *)

\* set_config calls that reach a setter, per run; the configuration
\* interface is exercised on every configuration fewer calls lead to
MaxCalls == 2

\* 2^32 + 5 and 2^56 + 1: requests wider than an unsigned int
Wide32 == <<5, 0, 0, 0, 1, 0, 0, 0>>
Wide56 == <<1, 0, 0, 0, 0, 0, 0, 1>>

\* nominal ranges a platform may attach with (mg)
Ranges == {Long(2480), Long(8192)}

OdrValues == {Long(0), Long(200000), Long(400001)}
FsrValues == {Long(2048), Long(4096), Long(6000)}
ThsValues == {Long(-1), Long(100), Long(5000), Wide32, Wide56}
DurValues == {Long(1000), Long(-3), Wide32}
IrqValues == {Long(MPU_SLAVE_IRQ_TYPE_NONE), Long(MPU_SLAVE_IRQ_TYPE_MOTION),
              Long(MPU_SLAVE_IRQ_TYPE_DATA_READY), Long(3)}

Values(key) ==
    IF key \in OdrKeys THEN OdrValues
    ELSE IF key \in FsrKeys THEN FsrValues
    ELSE IF key \in ThsKeys THEN ThsValues
    ELSE IF key \in DurKeys THEN DurValues
    ELSE IrqValues

\* a key of linux/mpu.h this driver does not handle
UnknownKey == "MPU_SLAVE_CONFIG_INTERNAL_REFERENCE"

\* bytes the status read may leave in data[0]
StatusBytes == {0, 1, 8, 15, 16, 240, 255}

AllOk == [k \in 1..2 |-> INV_SUCCESS]

---------------------------------------------------------------------------
(* The state machine *)

NoCall == [op |-> "none", key |-> "", apply |-> FALSE, null |-> FALSE,
           value |-> Long(0)]

Init ==
    \E range \in Ranges :
        LET a == lsm303dlx_a_init(range)
        IN  /\ private_data = a.private_data
            /\ call = [NoCall EXCEPT !.op = "init", !.value = range]
            /\ bus = a.bus
            /\ result = a.result
            /\ out = <<>>
            /\ ncalls = 0

\* set_config with a value and one of the ten keys
Config ==
    /\ call.op = "none"
    /\ ncalls < MaxCalls
    /\ \E key \in Keys, apply \in BOOLEAN :
         \E value \in Values(key),
            st \in (IF apply THEN [1..2 -> Status] ELSE {AllOk}) :
            LET r == lsm303dlx_a_config(private_data, key, apply, FALSE, value, st)
            IN  /\ private_data' = r.private_data
                /\ call' = [op |-> "config", key |-> key, apply |-> apply,
                            null |-> FALSE, value |-> value]
                /\ bus' = r.bus
                /\ result' = r.result
                /\ ncalls' = ncalls + 1
                /\ UNCHANGED out

\* set_config with a null value pointer or a key the driver does not know
ConfigRejected ==
    /\ call.op = "none"
    /\ ncalls < MaxCalls
    /\ \E key \in Keys \cup {UnknownKey}, apply \in BOOLEAN, null \in BOOLEAN :
         /\ null \/ key \notin Keys
         /\ LET r == lsm303dlx_a_config(private_data, key, apply, null, Long(0), AllOk)
            IN  /\ private_data' = r.private_data
                /\ call' = [op |-> "config", key |-> key, apply |-> apply,
                            null |-> null, value |-> Long(0)]
                /\ bus' = r.bus
                /\ result' = r.result
                /\ UNCHANGED <<out, ncalls>>

GetConfig ==
    /\ call.op = "none"
    /\ ncalls < MaxCalls
    /\ \E key \in Keys \cup {UnknownKey}, null \in BOOLEAN :
         LET r == lsm303dlx_a_get_config(private_data, key, null)
         IN  /\ call' = [NoCall EXCEPT !.op = "get_config", !.key = key,
                                       !.null = null]
             /\ out' = r.out
             /\ result' = r.result
             /\ bus' = <<>>
             /\ UNCHANGED <<private_data, ncalls>>

Suspend ==
    /\ call.op = "none"
    /\ \E st \in [1..8 -> Status] :
         LET r == lsm303dlx_a_suspend(private_data, st)
         IN  /\ call' = [NoCall EXCEPT !.op = "suspend"]
             /\ bus' = r.bus
             /\ result' = r.result
             /\ UNCHANGED <<private_data, out, ncalls>>

Resume ==
    /\ call.op = "none"
    /\ \E st \in [1..8 -> Status] :
         LET r == lsm303dlx_a_resume(private_data, st)
         IN  /\ call' = [NoCall EXCEPT !.op = "resume"]
             /\ bus' = r.bus
             /\ result' = r.result
             /\ UNCHANGED <<private_data, out, ncalls>>

Read ==
    /\ call.op = "none"
    /\ \E st \in [1..2 -> Status], data0 \in StatusBytes :
         LET r == lsm303dlx_a_read(st, data0)
         IN  /\ call' = [NoCall EXCEPT !.op = "read"]
             /\ bus' = r.bus
             /\ result' = r.result
             /\ UNCHANGED <<private_data, out, ncalls>>

\* the entry point has returned; the framework may call the next one
Return ==
    /\ call.op # "none"
    /\ call' = NoCall
    /\ bus' = <<>>
    /\ result' = INV_SUCCESS
    /\ out' = <<>>
    /\ UNCHANGED <<private_data, ncalls>>

\* the configuration interface
Next == Config \/ ConfigRejected \/ GetConfig \/ Return

Spec == Init /\ [][Next]_vars

\* set_config calls that do not apply, made one after the other
RECURSIVE Staged(_, _)
Staged(pd, calls) ==
    IF calls = <<>> THEN pd
    ELSE Staged(lsm303dlx_a_config(pd, Head(calls).key, FALSE, FALSE,
                                   Head(calls).value, AllOk).private_data,
                Tail(calls))

\* power transitions and sample reads, from every attach state with the
\* interrupt types staged by set_config calls that do not apply
PowerInit ==
    \E range \in Ranges, si \in IrqValues, ri \in IrqValues :
        /\ private_data =
             Staged(lsm303dlx_a_init(range).private_data,
                    << [key |-> "MPU_SLAVE_CONFIG_IRQ_SUSPEND", value |-> si],
                       [key |-> "MPU_SLAVE_CONFIG_IRQ_RESUME", value |-> ri] >>)
        /\ ncalls = 2
        /\ call = NoCall
        /\ bus = <<>>
        /\ result = INV_SUCCESS
        /\ out = <<>>

PowerNext == Suspend \/ Resume \/ Read \/ Return

PowerSpec == PowerInit /\ [][PowerNext]_vars

\* the nominal range of the descriptor, {2, 480}, in mg
DefaultRange == Long(2480)

\* every entry point of the descriptor: after an attach with the default
\* range, the last set_config call that reaches a setter, with get_config,
\* suspend, resume and read calls around it
DriverInit ==
    LET a == lsm303dlx_a_init(DefaultRange)
    IN  /\ private_data = a.private_data
        /\ call = [NoCall EXCEPT !.op = "init", !.value = DefaultRange]
        /\ bus = a.bus
        /\ result = a.result
        /\ out = <<>>
        /\ ncalls = MaxCalls - 1

DriverNext ==
    Config \/ ConfigRejected \/ GetConfig \/ Suspend \/ Resume \/ Read \/ Return

DriverSpec == DriverInit /\ [][DriverNext]_vars

---------------------------------------------------------------------------
(* The unit conversions as functions of the request (ConverterSpec) *)

\* requests on both sides of every threshold of the rate table
OdrRequests ==
    {Long(-1), Long(0), Long(1), Long(500), Long(501), Long(1000), Long(1001),
     Long(2000), Long(2001), Long(5000), Long(5001), Long(10000), Long(10001),
     Long(50000), Long(50001), Long(99999), Long(100000), Long(100001),
     Long(200000), Long(400000), Long(400001)}

\* requests on both sides of every limit of the range table
FsrRequests ==
    {Long(-1), Long(2048), Long(2049), Long(4096), Long(4097), Long(6000),
     Long(8192), Long(8193)}

DurRequests == {Long(0), Long(1), Long(317), Long(2540), Long(-3), Wide32}

Requests(key) ==
    IF key \in OdrKeys THEN OdrRequests
    ELSE IF key \in FsrKeys THEN FsrRequests
    ELSE DurRequests

ConverterKeys == OdrKeys \cup FsrKeys \cup DurKeys

\* a configuration pair whose ctrl_reg1 bytes are zero
Blank(pd) == [pd EXCEPT !.suspend.ctrl_reg1 = 0, !.resume.ctrl_reg1 = 0]

\* thresholds staged before the conversions: none, or one above every range
ConverterStaging ==
    { <<>>,
      << [key |-> "MPU_SLAVE_CONFIG_MOT_THS", value |-> Long(9000)],
         [key |-> "MPU_SLAVE_CONFIG_NMOT_THS", value |-> Long(9000)] >> }

\* the configurations the conversions are applied to: those attach leaves,
\* with or without a staged threshold, and the same with ctrl_reg1 cleared
ConverterInit ==
    \E range \in Ranges, blank \in BOOLEAN, staging \in ConverterStaging :
        /\ private_data =
             (IF blank
              THEN Blank(Staged(lsm303dlx_a_init(range).private_data, staging))
              ELSE Staged(lsm303dlx_a_init(range).private_data, staging))
        /\ call = NoCall
        /\ bus = <<>>
        /\ result = INV_SUCCESS
        /\ out = <<>>
        /\ ncalls = 0

\* set_config calls with one key for rate, range or duration, made back to
\* back, the transport accepting every write
Convert ==
    \E key \in ConverterKeys, apply \in BOOLEAN :
        /\ call.op = "none" \/ key = call.key
        /\ \E value \in Requests(key) :
             LET r == lsm303dlx_a_config(private_data, key, apply, FALSE,
                                         value, AllOk)
             IN  /\ private_data' = r.private_data
                 /\ call' = [op |-> "config", key |-> key, apply |-> apply,
                             null |-> FALSE, value |-> value]
                 /\ bus' = r.bus
                 /\ result' = r.result
                 /\ UNCHANGED <<out, ncalls>>

ConverterNext == Convert

ConverterSpec == ConverterInit /\ [][ConverterNext]_vars

---------------------------------------------------------------------------
(* Properties of the power transitions and of the sample read (PowerSpec) *)

\* what an operation of the log did, without the status it returned
Access(k) == <<bus[k].kind, bus[k].reg, bus[k].val, bus[k].len>>

AllSucceeded == \A k \in 1..Len(bus) : bus[k].status = INV_SUCCESS

\* the CTRL_REG3 / INT1_CFG bytes a power transition derives from irq_type
ExpectedIrqCtrl(c) == IF c.irq_type = 2 THEN 2 ELSE 0
ExpectedIrqCfg(c) == IF c.irq_type = 1 THEN c.mot_int1_cfg ELSE 0

\* the CTRL_REG4 byte a power transition derives from fsr
ExpectedFullScale(c) ==
    IF c.fsr = 8192 THEN 112 ELSE IF c.fsr = 4096 THEN 80 ELSE 64

\* C1: apply_resume is fail-fast.  Its operations are seven writes then one
\* read; an operation that returns a non-zero status is the last one issued
\* and its status is what resume returns; resume stops early only on such a
\* failure; and after a failed CTRL_REG4 write no INT1_THS, INT1_DURATION,
\* CTRL_REG3 or INT1_CFG write is in the log.
ResumeFailFast ==
    call.op = "resume" =>
        /\ Len(bus) \in 1..8
        /\ \A k \in 1..Len(bus) :
             /\ bus[k].kind = (IF k = 8 THEN "read" ELSE "write")
             /\ bus[k].status # INV_SUCCESS =>
                  (k = Len(bus) /\ result = bus[k].status)
        /\ AllSucceeded => (Len(bus) = 8 /\ result = INV_SUCCESS)
        /\ (\E k \in 1..Len(bus) : /\ bus[k].reg = LSM303DLx_CTRL_REG4
                                   /\ bus[k].status # INV_SUCCESS)
           => \A j \in 1..Len(bus) :
                bus[j].reg \notin {LSM303DLx_INT1_THS, LSM303DLx_INT1_DURATION,
                                   LSM303DLx_CTRL_REG3, LSM303DLx_INT1_CFG}

\* C1 witness: resume returned the error of a failed CTRL_REG4 write
ResumeFailFastWitness ==
    /\ call.op = "resume"
    /\ bus[Len(bus)].reg = LSM303DLx_CTRL_REG4
    /\ bus[Len(bus)].status = "INV_ERROR_SERIAL_WRITE"
    /\ result = "INV_ERROR_SERIAL_WRITE"

\* C2: apply_suspend issues, whatever the statuses, the writes CTRL_REG1,
\* CTRL_REG2 := 0x0F, CTRL_REG4, INT1_THS, INT1_DURATION, CTRL_REG3, INT1_CFG
\* with the bytes of the suspend configuration, then the read of
\* HP_FILTER_RESET, and returns the status of that read alone.
SuspendBestEffort ==
    call.op = "suspend" =>
        LET c == private_data.suspend
        IN  /\ Len(bus) = 8
            /\ Access(1) = <<"write", 32, c.ctrl_reg1, 1>>
            /\ Access(2) = <<"write", 33, 15, 1>>
            /\ Access(3) = <<"write", 35, ExpectedFullScale(c), 1>>
            /\ Access(4) = <<"write", 50, c.reg_ths, 1>>
            /\ Access(5) = <<"write", 51, c.reg_dur, 1>>
            /\ Access(6) = <<"write", 34, ExpectedIrqCtrl(c), 1>>
            /\ Access(7) = <<"write", 48, ExpectedIrqCfg(c), 1>>
            /\ bus[8].kind = "read" /\ bus[8].reg = 37 /\ bus[8].len = 1
            /\ result = bus[8].status

\* C2 witness: a write of suspend failed, the final read succeeded, and
\* suspend returned success
SuspendBestEffortWitness ==
    /\ call.op = "suspend"
    /\ bus[3].status # INV_SUCCESS
    /\ bus[8].status = INV_SUCCESS
    /\ result = INV_SUCCESS

ReadGatedByStatus ==
    call.op = "read" =>
        /\ Len(bus) \in 1..2
        /\ bus[1].kind = "read" /\ bus[1].reg = 39 /\ bus[1].len = 1
        /\ (bus[1].val % 16 # 0) <=> (Len(bus) = 2)
        /\ Len(bus) = 2 =>
             (bus[2].kind = "read" /\ bus[2].reg = 168 /\ bus[2].len = 6)
        /\ bus[1].val % 16 = 0 => result = INV_ERROR_ACCEL_DATA_NOT_READY

\* C4 witness: status byte 0x00, DataNotReady, and no burst read
ReadGatedByStatusWitness ==
    /\ call.op = "read"
    /\ bus[1].val = 0
    /\ Len(bus) = 1
    /\ result = INV_ERROR_ACCEL_DATA_NOT_READY

\* C5 as stated: a transport error of the status read is what read_sample
\* returns.
ReadReturnsStatusReadError ==
    (call.op = "read" /\ bus[1].status # INV_SUCCESS) => result = bus[1].status

---------------------------------------------------------------------------
(* Properties of the configuration interface (Spec) *)

Configs == {private_data.suspend, private_data.resume}

\* a set_config call that reached a setter
Dispatched == call.op = "config" /\ ~call.null /\ call.key \in Keys

FirstFailure == CHOOSE k \in 1..Len(bus) :
                    /\ bus[k].status # INV_SUCCESS
                    /\ \A j \in 1..(k - 1) : bus[j].status = INV_SUCCESS

\* C6 as stated: with apply = true, set_config returns the status of the
\* first register write that failed, the dependent writes of set_odr and
\* set_fsr and the first write of set_irq included.
ConfigReturnsFirstFailure ==
    (Dispatched /\ call.apply /\ ~AllSucceeded) =>
        result = bus[FirstFailure].status

\* floor(ths * 128 / fsr) of a stored threshold below fsr
ThsRegister(c) == (ValU(c.ths) * 128) \div c.fsr

\* C7 as stated: in every reachable state each configuration has
\* fsr in {2048, 4096, 8192}, ths < fsr and reg_ths = floor(ths * 128 / fsr).
ThresholdInvariant ==
    \A c \in Configs :
        /\ c.fsr \in {2048, 4096, 8192}
        /\ ULt(c.ths, U32(c.fsr))
        /\ c.reg_ths = ThsRegister(c)

\* min(floor(dur * odr / 1000000), 0x7F) of a stored duration
DurRegister(c) ==
    LET q == UDiv(Mul(ZExt(c.dur), c.odr), 1000000)
    IN  IF ULt(Long(127), q) THEN 127 ELSE ValU(q)

DurationRelation == \A c \in Configs : c.reg_dur = DurRegister(c)

\* a duration request that is non-negative and below 2^40, so that its
\* product with any output data rate fits a signed 64-bit integer
SmallDuration(v) == v[6] = 0 /\ v[7] = 0 /\ v[8] = 0

\* C8 as stated: reg_dur = min(floor(dur * odr / 1000000), 0x7F) holds after
\* attach and is kept by every set_config call whose duration request, if it
\* makes one, is non-negative and small.
DurationInvariant ==
    /\ DurationRelation
    /\ [][(/\ DurationRelation
           /\ call'.op = "config"
           /\ call'.key \in DurKeys => SmallDuration(call'.value))
          => DurationRelation']_vars

\* C9 as stated: set_ths stores the request when it is in [0, fsr - 1],
\* stores fsr - 1 when the request is fsr or more, and leaves
\* reg_ths = floor(ths * 128 / fsr).
ThsClamped ==
    (Dispatched /\ call.key \in ThsKeys) =>
        LET c == ConfigOf(private_data, call.key)
            t == call.value
        IN  /\ ~SLt(t, Long(c.fsr)) => c.ths = U32(c.fsr - 1)
            /\ (~IsNeg(t) /\ SLt(t, Long(c.fsr))) => c.ths = Trunc32(t)
            /\ ULt(c.ths, U32(c.fsr))
            /\ c.reg_ths = ThsRegister(c)

\* C10 as stated: a negative threshold request stores ths = 0 and
\* reg_ths = 0.
NegativeThsStoresZero ==
    (Dispatched /\ call.key \in ThsKeys /\ IsNeg(call.value)) =>
        LET c == ConfigOf(private_data, call.key)
        IN  c.ths = U32(0) /\ c.reg_ths = 0

---------------------------------------------------------------------------
(* Properties of the unit conversions (ConverterSpec) *)

\* the configuration the last set_config call worked on
Target == ConfigOf(private_data, call.key)

OdrCall == Dispatched /\ call.key \in OdrKeys

\* C11 as stated: set_odr(99999) stores odr = 50000 and set_odr(100001)
\* stores odr = 400000.
OdrBoundaryAsStated ==
    OdrCall =>
        /\ call.value = Long(99999) => Target.odr = 50000
        /\ call.value = Long(100001) => Target.odr = 400000

\* C11 amended: set_odr(99999) stores odr = 100000, the rate of the tier
\* above 50000, and set_odr(100001) stores odr = 400000.
OdrBoundary ==
    OdrCall =>
        /\ call.value = Long(99999) => Target.odr = 100000
        /\ call.value = Long(100001) => Target.odr = 400000

\* C11 witness: a set_odr(99999) call that left odr = 100000
OdrBoundaryWitness ==
    OdrCall /\ call.value = Long(99999) /\ Target.odr = 100000

OdrSet == {0, 500, 1000, 2000, 5000, 10000, 50000, 100000, 400000, 1000000}

\* C12: set_odr stores an odr of the fixed set; a request of 0 or below
\* stores odr = 0 and clears the five rate bits of ctrl_reg1; of two
\* set_odr calls made one after the other on a configuration, the one with
\* the larger request stores the larger or equal odr; and set_odr(200000) on
\* a configuration whose ctrl_reg1 is 0 stores odr = 400000, ctrl_reg1 = 0x30.
OdrTable ==
    /\ [](OdrCall =>
            /\ Target.odr \in OdrSet
            /\ ~SLt(Long(0), call.value) =>
                 (Target.odr = 0 /\ Target.ctrl_reg1 \div 8 = 0))
    /\ [][(/\ OdrCall
           /\ OdrCall'
           /\ call'.key = call.key
           /\ ~SLt(call'.value, call.value))
          => Target.odr <= Target'.odr]_vars
    /\ [][(/\ OdrCall'
           /\ call'.value = Long(200000)
           /\ ConfigOf(private_data, call'.key).ctrl_reg1 = 0)
          => (Target'.odr = 400000 /\ Target'.ctrl_reg1 = 48)]_vars

\* C12 witness: a set_odr(-1) call that stored odr = 0 and cleared the rate
\* bits of ctrl_reg1
OdrTableWitness ==
    /\ OdrCall
    /\ call.value = Long(-1)
    /\ Target.odr = 0
    /\ Target.ctrl_reg1 \div 8 = 0

FsrCall == Dispatched /\ call.key \in FsrKeys

\* C13: set_fsr(x) stores 2048 for x <= 2048, 4096 for 2048 < x <= 4096 and
\* 8192 otherwise, so the stored fsr is at least x whenever x <= 8192;
\* set_fsr(6000) stores 8192 and, when applied, writes 0x50 to CTRL_REG4;
\* and a second set_fsr(x) right after the first changes nothing in the
\* configurations.
FsrTable ==
    /\ [](FsrCall =>
            /\ Target.fsr = (IF ~SLt(Long(2048), call.value) THEN 2048
                             ELSE IF ~SLt(Long(4096), call.value) THEN 4096
                             ELSE 8192)
            /\ ~SLt(Long(8192), call.value) => ~SLt(Long(Target.fsr), call.value)
            /\ call.value = Long(6000) =>
                 /\ Target.fsr = 8192
                 /\ call.apply =>
                      (/\ bus[Len(bus)].kind = "write"
                       /\ bus[Len(bus)].reg = 35
                       /\ bus[Len(bus)].val = 80))
    /\ [][(/\ FsrCall
           /\ FsrCall'
           /\ call'.key = call.key
           /\ call'.value = call.value)
          => private_data' = private_data]_vars

\* C13 witness: an applied set_fsr(6000) that stored 8192 and wrote 0x50
FsrTableWitness ==
    /\ FsrCall
    /\ call.value = Long(6000)
    /\ call.apply
    /\ Target.fsr = 8192
    /\ bus[Len(bus)].val = 80

\* floor(x / d) of a signed 64-bit x and a positive d
FloorDiv(x, d) ==
    LET q == SDiv(x, d)
    IN  IF IsNeg(x) /\ Mul(q, d) # x THEN Sub(q, Long(1)) ELSE q

DurCall == Dispatched /\ call.key \in DurKeys

\* C14 as stated: set_dur(d) stores dur = d, and
\* reg_dur = min(floor(d * odr / 1000000), 0x7F) for the stored odr.
DurStoredAsRequested ==
    DurCall =>
        LET q == FloorDiv(Mul(call.value, Target.odr), 1000000)
        IN  /\ ZExt(Target.dur) = call.value
            /\ Long(Target.reg_dur) = (IF SLt(Long(127), q) THEN Long(127) ELSE q)

---------------------------------------------------------------------------
(* Further properties of the configuration interface (Spec) *)

\* a get_config call made before any set_config call has reached a setter
GetAfterAttach == call.op = "get_config" /\ ~call.null /\ ncalls = 0

\* C15 as stated: after attach get_config(ODR_SUSPEND) returns 0 and
\* get_config(ODR_RESUME) returns 200000.
DefaultOdrAsStated ==
    GetAfterAttach =>
        /\ call.key = "MPU_SLAVE_CONFIG_ODR_SUSPEND" => out = Long(0)
        /\ call.key = "MPU_SLAVE_CONFIG_ODR_RESUME" => out = Long(200000)

\* C15 amended: after attach get_config(ODR_SUSPEND) returns 0 and
\* get_config(ODR_RESUME) returns 400000, the rate of the tier the seeded
\* request of 200000 mHz falls in.
DefaultOdr ==
    GetAfterAttach =>
        /\ call.key = "MPU_SLAVE_CONFIG_ODR_SUSPEND" =>
             (out = Long(0) /\ result = INV_SUCCESS)
        /\ call.key = "MPU_SLAVE_CONFIG_ODR_RESUME" =>
             (out = Long(400000) /\ result = INV_SUCCESS)

\* C15 witness: get_config(ODR_RESUME) right after attach returned 400000
DefaultOdrWitness ==
    /\ GetAfterAttach
    /\ call.key = "MPU_SLAVE_CONFIG_ODR_RESUME"
    /\ out = Long(400000)

\* C16: set_config and get_config return InvalidParameter for a null value
\* pointer, whatever the key, and FeatureNotImplemented for a key outside
\* the ten with a value pointer; such a call changes neither configuration
\* and issues no bus operation.
Rejections ==
    [][(/\ call'.op \in {"config", "get_config"}
        /\ call'.null \/ call'.key \notin Keys)
       => /\ result' = (IF call'.null THEN INV_ERROR_INVALID_PARAMETER
                        ELSE INV_ERROR_FEATURE_NOT_IMPLEMENTED)
          /\ private_data' = private_data
          /\ bus' = <<>>]_vars

\* C16 witness: set_config with a null value pointer and an unknown key
\* returned InvalidParameter
RejectionsWitness ==
    /\ call.op = "config"
    /\ call.null
    /\ call.key \notin Keys
    /\ result = INV_ERROR_INVALID_PARAMETER

\* C17: a set_config call with apply = false and one of the ten keys issues
\* no bus operation and returns success, and attach issues no bus operation.
NoApplyNoBus ==
    /\ (Dispatched /\ ~call.apply) => (bus = <<>> /\ result = INV_SUCCESS)
    /\ call.op = "init" => bus = <<>>

\* C17 witness: a set_fsr that did not apply, with its dependent set_ths
NoApplyNoBusWitness ==
    /\ Dispatched
    /\ ~call.apply
    /\ call.key \in FsrKeys
    /\ bus = <<>>

\* the five rate bits set_odr selects for a stored odr
RateBits(odr) ==
    CASE odr = 1000000 -> 56
      [] odr = 400000 -> 48
      [] odr = 100000 -> 40
      [] odr = 50000 -> 32
      [] odr = 10000 -> 192
      [] odr = 5000 -> 160
      [] odr = 2000 -> 128
      [] odr = 1000 -> 96
      [] odr = 500 -> 64
      [] odr = 0 -> 0

\* C20: every set_odr call leaves ctrl_reg1 = rate bits | (old ctrl_reg1 &
\* 0x07), and in every state reachable after attach both configurations have
\* ctrl_reg1 & 0x07 = 0x07.
LowBitsKept ==
    /\ [](\A c \in Configs : c.ctrl_reg1 % 8 = 7)
    /\ [][OdrCall' =>
            Target'.ctrl_reg1 =
              RateBits(Target'.odr) + (ConfigOf(private_data, call'.key).ctrl_reg1 % 8)]_vars

\* C20 witness: a set_odr call selected the top rate and left 0x38 | 0x07
LowBitsKeptWitness ==
    /\ OdrCall
    /\ Target.odr = 1000000
    /\ Target.ctrl_reg1 = 63

---------------------------------------------------------------------------
(* Properties over every entry point (DriverSpec) *)

\* C18: a set_config call with a suspend-side key leaves the resume
\* configuration unchanged, one with a resume-side key leaves the suspend
\* configuration unchanged, and suspend, resume, read and get_config change
\* neither configuration.
Independence ==
    [][/\ (call'.op = "config" /\ call'.key \in SuspendKeys)
            => private_data'.resume = private_data.resume
       /\ (call'.op = "config" /\ call'.key \in ResumeKeys)
            => private_data'.suspend = private_data.suspend
       /\ call'.op \in {"suspend", "resume", "read", "get_config"}
            => private_data' = private_data]_vars

\* C18 witness: set_config(FSR_SUSPEND) lowered the suspend range and the
\* resume range kept the value attach gave it
IndependenceWitness ==
    /\ Dispatched
    /\ call.key = "MPU_SLAVE_CONFIG_FSR_SUSPEND"
    /\ private_data.suspend.fsr = 2048
    /\ private_data.resume.fsr = 4096

IrqCall == Dispatched /\ call.key \in IrqKeys

\* C19: an applied set_irq writes CTRL_REG3 and then INT1_CFG, with
\* (0x02, 0x00) for DATA_READY, (0x00, mot_int1_cfg) for MOTION, where
\* mot_int1_cfg is 0x2A for suspend and 0x95 for resume, and (0x00, 0x00)
\* for any other value; mot_int1_cfg keeps these values in every state.
IrqPair ==
    /\ private_data.suspend.mot_int1_cfg = 42
    /\ private_data.resume.mot_int1_cfg = 149
    /\ (IrqCall /\ call.apply) =>
         /\ Len(bus) = 2
         /\ Access(1) = <<"write", 34,
                          IF call.value = Long(2) THEN 2 ELSE 0, 1>>
         /\ Access(2) = <<"write", 48,
                          IF call.value = Long(1)
                          THEN (IF call.key \in SuspendKeys THEN 42 ELSE 149)
                          ELSE 0, 1>>

\* C19 witness: an applied set_irq(MOTION) on the resume configuration
\* wrote 0x95 to INT1_CFG
IrqPairWitness ==
    /\ IrqCall
    /\ call.apply
    /\ call.key = "MPU_SLAVE_CONFIG_IRQ_RESUME"
    /\ call.value = Long(1)
    /\ bus[2].val = 149

---------------------------------------------------------------------------
(* The stored interrupt type (Spec) *)

IrqTypes == {MPU_SLAVE_IRQ_TYPE_NONE, MPU_SLAVE_IRQ_TYPE_MOTION,
             MPU_SLAVE_IRQ_TYPE_DATA_READY}

\* C21 as stated: after any sequence of set_config calls, requests that
\* name none of the three types included, the irq_type of each
\* configuration is NONE, MOTION or DATA_READY, and so is the value
\* get_config returns for IRQ_SUSPEND and IRQ_RESUME.
IrqTypeEnumerated ==
    /\ \A c \in Configs : c.irq_type \in IrqTypes
    /\ (call.op = "get_config" /\ ~call.null /\ call.key \in IrqKeys) =>
         out \in {Long(t) : t \in IrqTypes}

---------------------------------------------------------------------------
(* The full-scale byte on the two paths that program CTRL_REG4 (DriverSpec) *)

\* the values the writes to CTRL_REG4 in a sequence of operations carry
FullScaleBytes(ops) ==
    {ops[k].val : k \in {j \in 1..Len(ops) :
                            ops[j].kind = "write" /\ ops[j].reg = LSM303DLx_CTRL_REG4}}

\* C22 as stated: the byte an applied set_fsr writes to CTRL_REG4 is the
\* byte both power transitions write to CTRL_REG4 for a configuration that
\* holds the fsr the call stored (2048, 4096 or 8192).
FullScaleByteShared ==
    (FsrCall /\ call.apply) =>
        /\ Target.fsr \in {2048, 4096, 8192}
        /\ FullScaleBytes(bus) # {}
        /\ FullScaleBytes(bus) = FullScaleBytes(SuspendOps(Target))
        /\ FullScaleBytes(bus) = FullScaleBytes(ResumeOps(Target))

---------------------------------------------------------------------------
(* The stored configuration and the bus (Spec) *)

\* the configurations the call recorded in the next state leaves when it is
\* made with apply = false, and so without any bus write
StoredWithoutApply ==
    lsm303dlx_a_config(private_data, call'.key, FALSE, call'.null,
                       call'.value, AllOk).private_data

\* C23: the configurations a set_config call leaves are those the same call
\* with apply = false leaves, whatever the apply flag and whatever status
\* each bus write returned: a failed write rolls nothing back.
NoRollback ==
    [][(call.op = "none" /\ call'.op = "config") =>
            private_data' = StoredWithoutApply]_vars

\* C23 witness: an applied set_ths(100) on the suspend configuration whose
\* write failed, with the new threshold and its register byte stored
NoRollbackWitness ==
    /\ Dispatched
    /\ call.apply
    /\ call.key = "MPU_SLAVE_CONFIG_MOT_THS"
    /\ call.value = Long(100)
    /\ result \in TransportError
    /\ ZExt(private_data.suspend.ths) = Long(100)
    /\ private_data.suspend.reg_ths = (100 * 128) \div private_data.suspend.fsr
    /\ ncalls = 1

---------------------------------------------------------------------------
(* The range of the register encodings (Spec) *)

\* C24 as stated: in every reachable state, whatever 64-bit signed
\* durations and thresholds were requested, both configurations have
\* 0 <= reg_dur <= 0x7F and 0 <= reg_ths <= 0x7F.
RegistersInRange ==
    \A c \in Configs :
        /\ c.reg_dur \in 0..LSM303DLx_MAX_DUR
        /\ c.reg_ths \in 0..127

===========================================================================
